---- MODULE Spec2Model ----
(***************************************************************************)
(* A state-machine model of the Galaxy tool scripts of RSE-Galaxy.  Each   *)
(* script is a stand-alone process: it reads its command line, runs to     *)
(* completion or fails, and leaves files behind.  One run of one script is *)
(* one behaviour; every script has its own specification (SpecGeometry,    *)
(* SpecHeatflux, ...), all over the same variables:                        *)
(*   tool         the script that runs                                     *)
(*   pc           the position of the script in its source                 *)
(*   argv         the command-line arguments and the input files' contents *)
(*   mem          the script's variables, under their source names         *)
(*   fs           the files the script may write: path -> content, a       *)
(*                sequence of lines, each line a tuple of fields           *)
(*   net          the external service the script talks to                 *)
(*   exit_status  <<>> while the process runs, <<n>> once it ended with    *)
(*                exit status n                                            *)
(***************************************************************************)
EXTENDS Integers, Sequences, FiniteSets, TLC

VARIABLES tool, pc, argv, mem, fs, net, exit_status

vars == <<tool, pc, argv, mem, fs, net, exit_status>>

\* exit_status while the process runs; <<n>> once it ended with status n.
Running == <<>>
\* The content of a file that does not exist.
Absent == << <<"absent">> >>
NoNet == "none"

\* All sequences over S of length 0..n.
SeqsUpTo(S, n) == UNION {[1..k -> S] : k \in 0..n}

\* The last element of a non-empty sequence (Python's s[-1]).
Last(s) == s[Len(s)]

\* Python's "x in s" for a one-character x and a string s.
Contains(s, c) == \E i \in 1..Len(s) : s[i] = c

\* The process ends: normally (status 0), by sys.exit(n), or by an
\* uncaught exception (the interpreter exits with status 1).
Ended == exit_status # Running

(***************************************************************************)
(* download_nucleus/download.py                                            *)
(***************************************************************************)
\* Length bound of the url argument, in characters.
MaxUrlLen == 3

UrlChars == {"/", ".", "a"}

Urls == SeqsUpTo(UrlChars, MaxUrlLen)

\* Python's str.split(sep): the segments between the separators, at least
\* one segment, possibly empty ones.
RECURSIVE SplitFrom(_, _, _, _)
SplitFrom(s, sep, i, cur) ==
    IF i > Len(s) THEN <<cur>>
    ELSE IF s[i] = sep THEN <<cur>> \o SplitFrom(s, sep, i + 1, <<>>)
    ELSE SplitFrom(s, sep, i + 1, Append(cur, s[i]))

Split(s, sep) == SplitFrom(s, sep, 1, <<>>)

\* download.py:55
FileNameOf(url) == Last(Split(url, "/"))

\* The payload the Nucleus server returns for a url.
Payload(url) == <<"payload", url>>

DlInit ==
    /\ tool = "download"
    /\ pc = "auth"
    /\ argv \in [url : Urls, file : {"out.dat"}]
    /\ mem = [printed |-> FALSE, file_name |-> <<>>, content |-> Absent]
    /\ fs = [p \in {"out.dat"} |-> Absent]
    /\ net = NoNet
    /\ exit_status = Running

\* A request raises (connection error, a body that is not JSON): the
\* exception is not caught and the process ends with status 1.
DlRequestRaises ==
    /\ tool = "download"
    /\ pc \in {"auth", "userinfo", "download"}
    /\ pc' = "failed"
    /\ exit_status' = <<1>>
    /\ UNCHANGED <<tool, argv, mem, fs, net>>

\* download.py:32-41
DlAuthenticate ==
    /\ tool = "download"
    /\ pc = "auth"
    /\ pc' = "userinfo"
    /\ UNCHANGED <<tool, argv, mem, fs, net, exit_status>>

\* download.py:46-52
DlUserInfo ==
    /\ tool = "download"
    /\ pc = "userinfo"
    /\ pc' = "validate"
    /\ UNCHANGED <<tool, argv, mem, fs, net, exit_status>>

\* download.py:54-56, 59-60: the head of one iteration of "while True".
DlValidate ==
    /\ tool = "download"
    /\ pc = "validate"
    /\ mem' = [mem EXCEPT !.file_name = FileNameOf(argv.url)]
    /\ IF ~Contains(FileNameOf(argv.url), ".")
       THEN pc' = "reject"
       ELSE pc' = "download"
    /\ UNCHANGED <<tool, argv, fs, net, exit_status>>

\* download.py:57-58: the two messages, then the next iteration.  Nothing
\* in the loop reads a new url or changes the old one.
DlReject ==
    /\ tool = "download"
    /\ pc = "reject"
    /\ mem' = [mem EXCEPT !.printed = TRUE]
    /\ pc' = "validate"
    /\ UNCHANGED <<tool, argv, fs, net, exit_status>>

\* download.py:62-70
DlGet ==
    /\ tool = "download"
    /\ pc = "download"
    /\ mem' = [mem EXCEPT !.content = Payload(argv.url)]
    /\ pc' = "write"
    /\ UNCHANGED <<tool, argv, fs, net, exit_status>>

\* download.py:76-77
DlWrite ==
    /\ tool = "download"
    /\ pc = "write"
    /\ fs' = [fs EXCEPT ![argv.file] = mem.content]
    /\ pc' = "done"
    /\ exit_status' = <<0>>
    /\ UNCHANGED <<tool, argv, mem, net>>

DlNext ==
    \/ DlRequestRaises
    \/ DlAuthenticate
    \/ DlUserInfo
    \/ DlValidate
    \/ DlReject
    \/ DlGet
    \/ DlWrite

\* The interpreter keeps executing the script: a step that can be taken is
\* eventually taken.
SpecDownloadFair == DlInit /\ [][DlNext]_vars /\ WF_vars(DlNext)

\* C1 (as claimed; refuted by the loop of download.py:54-60): every run of download.py terminates (completes or fails), for every
\* url argument, also one whose last "/"-separated segment has no ".".
C1_Terminates == <>(tool = "download" => Ended)

(***************************************************************************)
(* unstructured_heatflux_to_PINN/unstructured_heatflux_to_PINN.py          *)
(***************************************************************************)
\* Bound on the rows of the coordinates file.
MaxRows == 3
\* Bound on the processes of the pool (multiprocessing.Pool() starts one
\* per CPU).
NWorkers == 2

\* The sample points (each stands for one x y z triple) and the cells of
\* the grid.
HfPoints == {"p0", "p1"}
HfCells == {0, 1}
NoCell == 0 - 1

\* The 4th column of input row k, when the file has one.
AreaOf(k) == 100 + k

HfWorkers == 1..NWorkers

\* The chunk size Pool.map computes for n items: divmod(n, 4 * processes),
\* rounded up (0 for an empty input).
ChunkSize(n) ==
    LET q == n \div (4 * NWorkers)
        r == n % (4 * NWorkers)
    IN  IF n = 0 THEN 0 ELSE IF r # 0 THEN q + 1 ELSE q

\* The number of chunks (tasks) of n items.
NumChunks(n) ==
    IF n = 0 THEN 0 ELSE (n + ChunkSize(n) - 1) \div ChunkSize(n)

\* The row indexes of chunk c, in order.
ChunkRows(n, c) ==
    LET lo == (c - 1) * ChunkSize(n) + 1
        hi == IF c * ChunkSize(n) < n THEN c * ChunkSize(n) ELSE n
    IN  [j \in 1..(hi - lo + 1) |-> lo + j - 1]

\* unstructured_heatflux_to_PINN.py:78-102
vtkSearchPoints(aim_coor) ==
    LET cell_id == argv.locator[aim_coor]
    IN  IF cell_id < 0 THEN 0 ELSE argv.cell_array[cell_id]

\* The first index of value that holds no result yet.
FirstFree(value) == CHOOSE i \in 1..Len(value) :
    /\ value[i] = <<>>
    /\ \A j \in 1..(i - 1) : value[j] # <<>>

\* A variant that stores each result in arrival order, as an unordered map
\* would.
HfStoreArrival(value, k, res) == [value EXCEPT ![FirstFree(value)] = <<res>>]

\* The pool's result handler stores the result of item k at index k of the
\* list Pool.map returns.
HfStore(value, k, res) == [value EXCEPT ![k] = <<res>>]

RECURSIVE HfStoreAll(_, _, _)
HfStoreAll(value, ks, i) ==
    IF i > Len(ks) THEN value
    ELSE HfStoreAll(HfStore(value, ks[i], vtkSearchPoints(argv.rows[ks[i]])),
                    ks, i + 1)

HfInit ==
    /\ tool = "heatflux"
    /\ pc = "read"
    /\ argv \in [rows : SeqsUpTo(HfPoints, MaxRows),
                 ncols : {3, 4},
                 locator : [HfPoints -> HfCells \cup {NoCell}],
                 cell_array : {[c \in HfCells |-> 7 + 2 * c]}]
    /\ mem = [coordinates |-> <<>>, area |-> <<>>, has_area |-> FALSE,
              taskq |-> <<>>, busy |-> [w \in HfWorkers |-> 0],
              value |-> <<>>, results |-> <<>>]
    /\ fs = [p \in {"output.txt"} |-> Absent]
    /\ net = NoNet
    /\ exit_status = Running

\* unstructured_heatflux_to_PINN.py:113-135: read the coordinates, split off
\* the 4th column, create the pool and submit the chunks.  np.genfromtxt
\* gives a 1-D array for a file of fewer than two rows, and shape[1] then
\* raises IndexError.
HfRead ==
    /\ tool = "heatflux"
    /\ pc = "read"
    /\ IF Len(argv.rows) < 2
       THEN /\ pc' = "failed"
            /\ exit_status' = <<1>>
            /\ UNCHANGED mem
       ELSE /\ mem' = [mem EXCEPT
                  !.coordinates = argv.rows,
                  !.has_area = (argv.ncols = 4),
                  !.area = IF argv.ncols = 4
                           THEN [k \in 1..Len(argv.rows) |-> AreaOf(k)]
                           ELSE <<>>,
                  !.taskq = [c \in 1..NumChunks(Len(argv.rows)) |-> c],
                  !.value = [k \in 1..Len(argv.rows) |-> <<>>]]
            /\ pc' = "map"
            /\ UNCHANGED exit_status
    /\ UNCHANGED <<tool, argv, fs, net>>

\* An idle worker takes the next chunk from the task queue.
HfWorkerTake(w) ==
    /\ tool = "heatflux"
    /\ pc = "map"
    /\ mem.busy[w] = 0
    /\ mem.taskq # <<>>
    /\ mem' = [mem EXCEPT !.busy[w] = Head(mem.taskq),
                          !.taskq = Tail(mem.taskq)]
    /\ UNCHANGED <<tool, pc, argv, fs, net, exit_status>>

\* A worker finishes its chunk: vtkSearchPoints of every point of the chunk,
\* stored by the result handler.
HfWorkerFinish(w) ==
    /\ tool = "heatflux"
    /\ pc = "map"
    /\ mem.busy[w] # 0
    /\ mem' = [mem EXCEPT
           !.busy[w] = 0,
           !.value = HfStoreAll(mem.value,
                                ChunkRows(Len(mem.coordinates), mem.busy[w]), 1)]
    /\ UNCHANGED <<tool, pc, argv, fs, net, exit_status>>

\* unstructured_heatflux_to_PINN.py:134-137: Pool.map returns once every
\* chunk is done; the results are copied in list order.
HfMapReturn ==
    /\ tool = "heatflux"
    /\ pc = "map"
    /\ mem.taskq = <<>>
    /\ \A w \in HfWorkers : mem.busy[w] = 0
    /\ mem' = [mem EXCEPT
           !.results = [ii \in 1..Len(mem.value) |-> mem.value[ii][1]]]
    /\ pc' = "write"
    /\ UNCHANGED <<tool, argv, fs, net, exit_status>>

\* unstructured_heatflux_to_PINN.py:144-148
HfWrite ==
    /\ tool = "heatflux"
    /\ pc = "write"
    /\ fs' = [fs EXCEPT !["output.txt"] =
           [k \in 1..Len(mem.coordinates) |->
               IF mem.has_area
               THEN <<mem.coordinates[k], mem.results[k], mem.area[k]>>
               ELSE <<mem.coordinates[k], mem.results[k]>>]]
    /\ pc' = "done"
    /\ exit_status' = <<0>>
    /\ UNCHANGED <<tool, argv, mem, net>>

HfNext ==
    \/ HfRead
    \/ \E w \in HfWorkers : HfWorkerTake(w)
    \/ \E w \in HfWorkers : HfWorkerFinish(w)
    \/ HfMapReturn
    \/ HfWrite

SpecHeatflux == HfInit /\ [][HfNext]_vars

\* The row the claim expects at position k of the output.
HfExpectedRow(k) ==
    LET p == argv.rows[k]
        v == IF argv.locator[p] = NoCell THEN 0
             ELSE argv.cell_array[argv.locator[p]]
    IN  IF argv.ncols = 4 THEN <<p, v, AreaOf(k)>> ELSE <<p, v>>

\* C2: whatever the interleaving of the pool workers, the output has exactly
\* one row per input row, and row k holds the coordinates of input row k,
\* then the value of vtkSearchPoints for that point (0 when no cell contains
\* it), then the input's 4th column when the input has 4 columns.
C2_OutputRowPerInputRow ==
    (tool = "heatflux" /\ pc = "done") =>
        /\ Len(fs["output.txt"]) = Len(argv.rows)
        /\ \A k \in 1..Len(argv.rows) : fs["output.txt"][k] = HfExpectedRow(k)

\* A finished run on a 4-column input whose points lie in different cells
\* and outside the grid.
C2_Witness ==
    /\ tool = "heatflux"
    /\ pc = "done"
    /\ argv.ncols = 4
    /\ Len(argv.rows) = MaxRows
    /\ argv.locator[argv.rows[1]] = NoCell
    /\ argv.locator[argv.rows[2]] # NoCell
    /\ fs["output.txt"][1][2] # fs["output.txt"][2][2]

(***************************************************************************)
(* tokamak_gen/generate_geometry.py, tokamakgen.py, tf_step_v3.py          *)
(***************************************************************************)
\* Bound on the lines the coil files hold before the run.
MaxOldLines == 2
\* Bound on the radial-build components of the configuration.
MaxComponents == 3
\* Bound on the vessel outline points Torus.get_r_and_z_points returns.
MaxVesselPoints == 1

\* tf_step_v3.py:53
coil_num == 12
\* tf_step_v3.py:51
tf_num == 12
\* tokamakgen.py:642
number_of_turns == 40

GgCoilPaths == {"tf.csv", "pf.csv"}
GgWorkFiles == {"vessel_points.csv", "outer.csv", "inner.csv",
                "reactor.step", "coils.step", "radial_build.step"}

OldLines == {<<"old", 1>>, <<"old", 2>>}
OldContents == {Absent} \cup SeqsUpTo(OldLines, MaxOldLines)

\* tokamakgen.py:553-571: the coil groups in dictionary order, with the
\* number of positions of each.
coil_positions == <<
    [label |-> "top_coils", n |-> 3],
    [label |-> "bottom_coils", n |-> 3],
    [label |-> "top_inner_coils", n |-> 5],
    [label |-> "bottom_inner_coils", n |-> 5] >>

\* open(path, "w") followed by writing lines: the old content is dropped.
OpenWrite(old, lines) == lines

\* open(path, "a") followed by writing lines: a missing file is created.
OpenAppend(old, lines) == IF old = Absent THEN lines ELSE old \o lines

\* generate_geometry.py:68-83
PfHeader == << <<"R_turns,Z_turns,I,r_av,dr,dz,coil_x,coil_y,coil_z,normal_x,normal_y,normal_z">> >>

\* tokamakgen.py:319-348: one row per coil of the group.
PfRows(g) == [i \in 1..coil_positions[g].n |-> <<"pf_row", g, i>>]

\* tf_step_v3.py:180-194: the lines of one coil, a two-line header and
\* tot_point + 1 points.
TfCoilLines(c, tot_point) ==
    << <<"TF Coil", c>>, <<"x,y,z">> >> \o
    [k \in 1..(tot_point + 1) |-> <<"point", c, k>>]

\* tf_step_v3.py:177-196
RECURSIVE TfLines(_, _)
TfLines(c, tot_point) ==
    IF c > coil_num THEN <<>>
    ELSE TfCoilLines(c, tot_point) \o TfLines(c + 1, tot_point)

\* tokamakgen.py:159-182
VesselLines(n) == << <<"X", "Y">> >> \o [k \in 1..n |-> <<"rz", k>>]

\* tokamakgen.py:649-652
PfCoilNames(g) == [i \in 1..coil_positions[g].n |->
                      <<coil_positions[g].label, i - 1>>]

\* tokamakgen.py:393-420, 655-659: the solenoid coils one group adds.
SolenoidNames(g) == [i \in 1..number_of_turns |->
                        <<"solenoid", coil_positions[g].label, i - 1>>]

GgInit ==
    /\ tool = "generate_geometry"
    /\ pc = "init_csv"
    /\ argv \in [TF_coil_path : GgCoilPaths,
                 PF_coil_path : GgCoilPaths,
                 old : [GgCoilPaths -> OldContents],
                 With_Sol : BOOLEAN,
                 component_names : {[i \in 1..n |-> <<"component", i>>] :
                                        n \in 2..MaxComponents},
                 vessel_points : 1..MaxVesselPoints]
    /\ mem = [reactor_components |-> <<>>, tf_coils |-> <<>>, g |-> 1,
              tokamak_assembly |-> <<>>, coils |-> <<>>,
              reactor_only |-> <<>>]
    /\ fs = [p \in GgCoilPaths \cup GgWorkFiles |->
                IF p \in GgCoilPaths THEN argv.old[p] ELSE Absent]
    /\ net = NoNet
    /\ exit_status = Running

\* generate_geometry.py:65-83
GgInitCsv ==
    /\ tool = "generate_geometry"
    /\ pc = "init_csv"
    /\ fs' = [fs EXCEPT ![argv.PF_coil_path] =
                 OpenAppend(fs[argv.PF_coil_path], PfHeader)]
    /\ pc' = "build"
    /\ UNCHANGED <<tool, argv, mem, net, exit_status>>

\* tokamakgen.py:473-523: the torus of every component, then write_csv.
RcBuildComponents ==
    /\ tool = "generate_geometry"
    /\ pc = "build"
    /\ mem' = [mem EXCEPT !.reactor_components = argv.component_names]
    /\ fs' = [fs EXCEPT !["vessel_points.csv"] =
                 OpenWrite(fs["vessel_points.csv"],
                           VesselLines(argv.vessel_points))]
    /\ pc' = "tf_step"
    /\ UNCHANGED <<tool, argv, net, exit_status>>

\* tokamakgen.py:524-525, tf_step_v3.py:32-235
RcTfStep ==
    /\ tool = "generate_geometry"
    /\ pc = "tf_step"
    /\ fs' = [p \in DOMAIN fs |->
                 IF p = argv.TF_coil_path
                 THEN OpenWrite(fs[p], TfLines(1, argv.vessel_points))
                 ELSE IF p \in {"outer.csv", "inner.csv"}
                 THEN OpenWrite(fs[p], << <<"x,y,z">> >>)
                 ELSE fs[p]]
    /\ mem' = [mem EXCEPT !.tf_coils = [i \in 1..tf_num |-> <<"TF", i>>]]
    /\ pc' = "cleanup"
    /\ UNCHANGED <<tool, argv, net, exit_status>>

\* tokamakgen.py:528-529, 185-198
RcDeleteCsv ==
    /\ tool = "generate_geometry"
    /\ pc = "cleanup"
    /\ fs' = [p \in DOMAIN fs |->
                 IF p \in {"outer.csv", "inner.csv"} THEN Absent ELSE fs[p]]
    /\ pc' = "add_components"
    /\ UNCHANGED <<tool, argv, mem, net, exit_status>>

\* A variant that adds the radial-build components to the coils assembly
\* as well.
RcAddComponentsToCoils ==
    /\ tool = "generate_geometry"
    /\ pc = "add_components"
    /\ mem' = [mem EXCEPT
           !.tokamak_assembly = mem.tokamak_assembly \o mem.reactor_components,
           !.coils = mem.coils \o mem.reactor_components,
           !.reactor_only = mem.reactor_only \o mem.reactor_components]
    /\ pc' = "coil_group"
    /\ UNCHANGED <<tool, argv, fs, net, exit_status>>

\* tokamakgen.py:612-621
RcAddComponents ==
    /\ tool = "generate_geometry"
    /\ pc = "add_components"
    /\ mem' = [mem EXCEPT
           !.tokamak_assembly = mem.tokamak_assembly \o mem.reactor_components,
           !.reactor_only = mem.reactor_only \o mem.reactor_components]
    /\ pc' = "coil_group"
    /\ UNCHANGED <<tool, argv, fs, net, exit_status>>

\* tokamakgen.py:624-660: one iteration of the loop over coil_positions:
\* generate_pf_coil_set (which appends the group's rows to the PF file),
\* generate_solenoid when sol is set, and the additions to the assemblies.
RcCoilGroup ==
    /\ tool = "generate_geometry"
    /\ pc = "coil_group"
    /\ mem.g <= Len(coil_positions)
    /\ fs' = [fs EXCEPT ![argv.PF_coil_path] =
                 OpenAppend(fs[argv.PF_coil_path], PfRows(mem.g))]
    /\ LET added == PfCoilNames(mem.g) \o
                    (IF argv.With_Sol THEN SolenoidNames(mem.g) ELSE <<>>)
       IN  mem' = [mem EXCEPT
               !.tokamak_assembly = mem.tokamak_assembly \o added,
               !.coils = mem.coils \o added,
               !.g = mem.g + 1]
    /\ UNCHANGED <<tool, pc, argv, net, exit_status>>

\* tokamakgen.py:663-665
RcReturn ==
    /\ tool = "generate_geometry"
    /\ pc = "coil_group"
    /\ mem.g > Len(coil_positions)
    /\ mem' = [mem EXCEPT
           !.tokamak_assembly = Append(mem.tokamak_assembly,
                                       <<"TF_coils", mem.tf_coils>>),
           !.coils = Append(mem.coils, <<"TF_coils", mem.tf_coils>>)]
    /\ pc' = "save"
    /\ UNCHANGED <<tool, argv, fs, net, exit_status>>

\* generate_geometry.py:85, 98-100
GgSave ==
    /\ tool = "generate_geometry"
    /\ pc = "save"
    /\ fs' = [fs EXCEPT !["reactor.step"] = mem.tokamak_assembly,
                        !["coils.step"] = mem.coils,
                        !["radial_build.step"] = mem.reactor_only]
    /\ pc' = "done"
    /\ exit_status' = <<0>>
    /\ UNCHANGED <<tool, argv, mem, net>>

GgNext ==
    \/ GgInitCsv
    \/ RcBuildComponents
    \/ RcTfStep
    \/ RcDeleteCsv
    \/ RcAddComponents
    \/ RcCoilGroup
    \/ RcReturn
    \/ GgSave

SpecGeometry == GgInit /\ [][GgNext]_vars

\* s is a prefix of t.
IsPrefix(s, t) == Len(s) <= Len(t) /\ \A i \in 1..Len(s) : s[i] = t[i]

\* C3 (as claimed; refuted by the "w" mode of tf_step_v3.py:176): after the
\* run, whatever the TF coil file and the PF coil file held before is still
\* there, unchanged and ahead of the new data.
C3_AppendsToBothCoilFiles ==
    (tool = "generate_geometry" /\ pc = "done") =>
        \A p \in {argv.TF_coil_path, argv.PF_coil_path} :
            argv.old[p] # Absent => IsPrefix(argv.old[p], fs[p])

\* The kind of an object of an assembly, from its name.
KindOf(obj) ==
    IF obj[1] = "component" THEN "component"
    ELSE IF obj[1] = "solenoid" THEN "solenoid"
    ELSE IF obj[1] = "TF_coils" THEN "tf"
    ELSE "pf"

\* obj is one of the objects of the assembly.
InAssembly(obj, assembly) ==
    \E j \in 1..Len(assembly) :
        KindOf(assembly[j]) = KindOf(obj) /\ assembly[j] = obj

\* The number of objects of a kind in the assembly.
CountKind(assembly, kind) ==
    Cardinality({j \in 1..Len(assembly) : KindOf(assembly[j]) = kind})

\* The number of PF coils of all the groups of coil_positions.
RECURSIVE PfCoilCount(_)
PfCoilCount(g) ==
    IF g > Len(coil_positions) THEN 0
    ELSE coil_positions[g].n + PfCoilCount(g + 1)

\* C11: after run_code returns, reactor_only holds exactly the radial-build
\* components and no coil; coils holds exactly the PF coils, the solenoid
\* coils (when sol is true) and the TF coil set, and no radial-build
\* component; tokamak_assembly holds every object of the other two and
\* nothing else.
C11_AssembliesPartition ==
    (tool = "generate_geometry" /\ pc \in {"save", "done"}) =>
        /\ Len(mem.reactor_only) = Len(argv.component_names)
        /\ \A i \in 1..Len(argv.component_names) :
               InAssembly(argv.component_names[i], mem.reactor_only)
        /\ CountKind(mem.reactor_only, "component") = Len(mem.reactor_only)
        /\ CountKind(mem.coils, "component") = 0
        /\ CountKind(mem.coils, "pf") = PfCoilCount(1)
        /\ \A g \in 1..Len(coil_positions) : \A i \in 1..coil_positions[g].n :
               InAssembly(<<coil_positions[g].label, i - 1>>, mem.coils)
        /\ CountKind(mem.coils, "tf") = 1
        /\ (CountKind(mem.coils, "solenoid") > 0) <=> argv.With_Sol
        /\ Len(mem.tokamak_assembly) = Len(mem.reactor_only) + Len(mem.coils)
        /\ \A i \in 1..Len(mem.reactor_only) :
               InAssembly(mem.reactor_only[i], mem.tokamak_assembly)
        /\ \A i \in 1..Len(mem.coils) :
               InAssembly(mem.coils[i], mem.tokamak_assembly)
        /\ \A i \in 1..Len(mem.tokamak_assembly) :
               \/ InAssembly(mem.tokamak_assembly[i], mem.reactor_only)
               \/ InAssembly(mem.tokamak_assembly[i], mem.coils)

\* A finished run with the solenoid and the largest radial build.
C11_Witness ==
    /\ tool = "generate_geometry"
    /\ pc = "done"
    /\ argv.With_Sol
    /\ Len(mem.reactor_only) = MaxComponents
    /\ CountKind(mem.coils, "solenoid") > 0

\* C13 (as claimed; refuted because generate_solenoid is called inside the
\* loop over coil_positions, tokamakgen.py:624-660): when the solenoid flag
\* is true the coils assembly holds exactly number_of_turns solenoid coils.
C13_SolenoidAddedOnce ==
    (tool = "generate_geometry" /\ pc \in {"save", "done"} /\ argv.With_Sol) =>
        CountKind(mem.coils, "solenoid") = number_of_turns

(***************************************************************************)
(* get_bounding_box/get_bounding_box.py                                    *)
(***************************************************************************)
\* Bound on the magnitude of a bounding-box coordinate, in units of 1e-6.
MaxCoord == 25

GbPaths == {"output.csv", "bbox.csv", "results/box.txt"}

\* Coordinates in units of 1e-6, so that rounding to 5 places shows.
GbCoords == {0 - 15, MaxCoord}

\* round(x, 5) of a value held in units of 1e-6: the nearest multiple of
\* 10, a tie going to the even multiple.
Round5(x) ==
    LET lo == (x \div 10) * 10
        r == x - lo
    IN  IF r < 5 THEN lo
        ELSE IF r > 5 THEN lo + 10
        ELSE IF (lo \div 10) % 2 = 0 THEN lo ELSE lo + 10

\* get_bounding_box.py:41-47
GbLines(bbox) == <<
    <<"Min/Max", "X", "Y", "Z">>,
    <<"Min", Round5(bbox.XMin), Round5(bbox.YMin), Round5(bbox.ZMin)>>,
    <<"Max", Round5(bbox.XMax), Round5(bbox.YMax), Round5(bbox.ZMax)>> >>

GbInit ==
    /\ tool = "get_bounding_box"
    /\ pc = "load"
    /\ argv \in [output_file_path : GbPaths,
                 shape : [XMin : GbCoords, YMin : GbCoords, ZMin : GbCoords,
                          XMax : GbCoords, YMax : GbCoords, ZMax : GbCoords]]
    /\ mem = [bbox |-> <<>>, output_file |-> ""]
    /\ fs = [p \in GbPaths |-> Absent]
    /\ net = NoNet
    /\ exit_status = Running

\* get_bounding_box.py:25-32
GbLoad ==
    /\ tool = "get_bounding_box"
    /\ pc = "load"
    /\ mem' = [mem EXCEPT !.bbox = argv.shape]
    /\ pc' = "parse"
    /\ UNCHANGED <<tool, argv, fs, net, exit_status>>

\* get_bounding_box.py:26: the STEP file is missing or unreadable.
GbLoadFails ==
    /\ tool = "get_bounding_box"
    /\ pc = "load"
    /\ pc' = "failed"
    /\ exit_status' = <<1>>
    /\ UNCHANGED <<tool, argv, mem, fs, net>>

\* get_bounding_box.py:34-37
GbParse ==
    /\ tool = "get_bounding_box"
    /\ pc = "parse"
    /\ mem' = [mem EXCEPT !.output_file = "output.csv"]
    /\ pc' = "write"
    /\ UNCHANGED <<tool, argv, fs, net, exit_status>>

\* get_bounding_box.py:40-49
GbWrite ==
    /\ tool = "get_bounding_box"
    /\ pc = "write"
    /\ fs' = [fs EXCEPT ![mem.output_file] =
                 OpenWrite(fs[mem.output_file], GbLines(mem.bbox))]
    /\ pc' = "done"
    /\ exit_status' = <<0>>
    /\ UNCHANGED <<tool, argv, mem, net>>

GbNext ==
    \/ GbLoad
    \/ GbLoadFails
    \/ GbParse
    \/ GbWrite

SpecBoundingBox == GbInit /\ [][GbNext]_vars

\* C4 (as claimed; refuted by get_bounding_box.py:37): after a successful
\* run the file named by the output_file_path argument holds the header
\* line and the Min and Max rows, for every value of the argument.
C4_WritesToArgumentPath ==
    (tool = "get_bounding_box" /\ pc = "done") =>
        /\ fs[argv.output_file_path] # Absent
        /\ Len(fs[argv.output_file_path]) = 3
        /\ fs[argv.output_file_path][1] = <<"Min/Max", "X", "Y", "Z">>
        /\ fs[argv.output_file_path][2][1] = "Min"
        /\ fs[argv.output_file_path][3][1] = "Max"

(***************************************************************************)
(* step_to_vtk/step_to_vtk.py                                              *)
(***************************************************************************)
\* Bound on the solids of geometry.step.
MaxSolids == 3

StPaths == {"mesh.vtk", "output_file.vtk", "out.vtk"}

\* The content a file may have before the run.
StOld == {Absent, << <<"old mesh">> >>}

\* gmsh.model.mesh.generate(3) and gmsh.write: the mesh of n solids.
MeshOf(n) == [i \in 1..n |-> <<"cells of solid", i>>]

\* os.rename(src, dst): dst takes the content of src, src is gone.
Rename(files, src, dst) ==
    [p \in DOMAIN files |->
        IF p = dst THEN files[src]
        ELSE IF p = src THEN Absent
        ELSE files[p]]

StInit ==
    /\ tool = "step_to_vtk"
    /\ pc = "parse"
    /\ argv \in [Output_Filename : StPaths,
                 solids : 1..MaxSolids,
                 old : [StPaths -> StOld]]
    /\ mem = [output_file |-> "", mesh |-> <<>>]
    /\ fs = argv.old
    /\ net = NoNet
    /\ exit_status = Running

\* step_to_vtk.py:24-29
StParse ==
    /\ tool = "step_to_vtk"
    /\ pc = "parse"
    /\ mem' = [mem EXCEPT !.output_file = argv.Output_Filename]
    /\ pc' = "mesh"
    /\ UNCHANGED <<tool, argv, fs, net, exit_status>>

\* step_to_vtk.py:32-45
StMesh ==
    /\ tool = "step_to_vtk"
    /\ pc = "mesh"
    /\ mem' = [mem EXCEPT !.mesh = MeshOf(argv.solids)]
    /\ pc' = "write"
    /\ UNCHANGED <<tool, argv, fs, net, exit_status>>

\* step_to_vtk.py:38: geometry.step is missing or unreadable.
StMergeFails ==
    /\ tool = "step_to_vtk"
    /\ pc = "mesh"
    /\ pc' = "failed"
    /\ exit_status' = <<1>>
    /\ UNCHANGED <<tool, argv, mem, fs, net>>

\* step_to_vtk.py:48
StWrite ==
    /\ tool = "step_to_vtk"
    /\ pc = "write"
    /\ fs' = [fs EXCEPT !["mesh.vtk"] = OpenWrite(fs["mesh.vtk"], mem.mesh)]
    /\ pc' = "rename"
    /\ UNCHANGED <<tool, argv, mem, net, exit_status>>

\* step_to_vtk.py:49
StRename ==
    /\ tool = "step_to_vtk"
    /\ pc = "rename"
    /\ fs' = Rename(fs, "mesh.vtk", "output_file.vtk")
    /\ pc' = "done"
    /\ exit_status' = <<0>>
    /\ UNCHANGED <<tool, argv, mem, net>>

StNext ==
    \/ StParse
    \/ StMesh
    \/ StMergeFails
    \/ StWrite
    \/ StRename

SpecStepToVtk == StInit /\ [][StNext]_vars

\* C5 (as claimed; refuted by step_to_vtk.py:49): after a successful run the
\* generated mesh is in the file named by the Output_Filename argument, for
\* every value of the argument.
C5_MeshAtOutputFilename ==
    (tool = "step_to_vtk" /\ pc = "done") =>
        fs[argv.Output_Filename] = MeshOf(argv.solids)

(***************************************************************************)
(* minio_pull/pull.py and minio_push/push.py                               *)
(***************************************************************************)
\* Bound on the buckets of the server.
MaxBuckets == 2

BucketNames == {<<"bucket", i>> : i \in 1..MaxBuckets}

\* client.list_buckets(): one Bucket object per bucket of the server.
ListBuckets(server) == {[class |-> "Bucket", name |-> n] : n \in server}

\* Bucket == str.  The Bucket class is the minio package's: the releases
\* that define Bucket.__eq__ for a str compare the names, the others fall
\* back to object identity, which is false for a str.
BucketEqStr(b, name) == IF argv.bucket_eq_str THEN b.name = name ELSE FALSE

\* pull.py:29, push.py:26: "bucket not in buckets".
NotInBuckets(name, buckets) == ~(\E b \in buckets : BucketEqStr(b, name))

MnInit ==
    /\ tool \in {"minio_pull", "minio_push"}
    /\ pc = "list"
    /\ argv \in [bucket : BucketNames,
                 server : SUBSET BucketNames,
                 has_object : BOOLEAN,
                 bucket_eq_str : BOOLEAN]
    /\ mem = [buckets |-> {}, calls |-> <<>>, log |-> <<>>]
    /\ fs = [p \in {"file_save"} |-> Absent]
    /\ net = [buckets |-> argv.server,
              objects |-> IF argv.has_object /\ argv.bucket \in argv.server
                          THEN {<<argv.bucket, "filename">>} ELSE {}]
    /\ exit_status = Running

\* pull.py:28, push.py:25
MnList ==
    /\ tool \in {"minio_pull", "minio_push"}
    /\ pc = "list"
    /\ mem' = [mem EXCEPT !.buckets = ListBuckets(net.buckets),
                          !.calls = Append(mem.calls, "list_buckets")]
    /\ pc' = "test"
    /\ UNCHANGED <<tool, argv, fs, net, exit_status>>

\* pull.py:28, push.py:25: the server cannot be reached.
MnListFails ==
    /\ tool \in {"minio_pull", "minio_push"}
    /\ pc = "list"
    /\ pc' = "failed"
    /\ exit_status' = <<1>>
    /\ UNCHANGED <<tool, argv, mem, fs, net>>

\* pull.py:29-33.  fget_object raises S3Error when the object (or the
\* bucket) is missing.
PlTest ==
    /\ tool = "minio_pull"
    /\ pc = "test"
    /\ IF NotInBuckets(argv.bucket, mem.buckets)
       THEN /\ mem' = [mem EXCEPT !.log = Append(mem.log, "Error: Bucket does not exist.")]
            /\ pc' = "done"
            /\ exit_status' = <<0>>
            /\ UNCHANGED fs
       ELSE /\ mem' = [mem EXCEPT !.calls = Append(mem.calls, "fget_object")]
            /\ IF <<argv.bucket, "filename">> \in net.objects
               THEN /\ fs' = [fs EXCEPT !["file_save"] =
                                 << <<"object", argv.bucket, "filename">> >>]
                    /\ pc' = "done"
                    /\ exit_status' = <<0>>
               ELSE /\ pc' = "failed"
                    /\ exit_status' = <<1>>
                    /\ UNCHANGED fs
    /\ UNCHANGED <<tool, argv, net>>

\* push.py:26-27.  make_bucket raises S3Error (BucketAlreadyOwnedByYou) when
\* the bucket exists.
PsTest ==
    /\ tool = "minio_push"
    /\ pc = "test"
    /\ IF NotInBuckets(argv.bucket, mem.buckets)
       THEN /\ mem' = [mem EXCEPT !.calls = Append(mem.calls, "make_bucket")]
            /\ IF argv.bucket \in net.buckets
               THEN /\ pc' = "failed"
                    /\ exit_status' = <<1>>
                    /\ UNCHANGED net
               ELSE /\ net' = [net EXCEPT !.buckets = net.buckets \cup {argv.bucket}]
                    /\ pc' = "put"
                    /\ UNCHANGED exit_status
       ELSE /\ pc' = "put"
            /\ UNCHANGED <<mem, net, exit_status>>
    /\ UNCHANGED <<tool, argv, fs>>

\* push.py:29-33
PsPut ==
    /\ tool = "minio_push"
    /\ pc = "put"
    /\ mem' = [mem EXCEPT !.calls = Append(mem.calls, "fput_object")]
    /\ net' = [net EXCEPT !.objects = net.objects \cup {<<argv.bucket, "tail">>}]
    /\ pc' = "done"
    /\ exit_status' = <<0>>
    /\ UNCHANGED <<tool, argv, fs>>

MnNext ==
    \/ MnList
    \/ MnListFails
    \/ PlTest
    \/ PsTest
    \/ PsPut

SpecMinio == MnInit /\ [][MnNext]_vars

\* The script made the call.
Called(c) == \E i \in 1..Len(mem.calls) : mem.calls[i] = c

MaxThickness == 2
\* Bound on the distance of the tile thickness from the largest one allowed.
MaxTileDelta == 1

\* capella_paramak_generator.py:84: the room taken by the central solenoid.
SolenoidRadius == 50

\* tile_paramak.py:29-34
max_tile_major_radius == 85
max_tile_minor_radius == 60
solenoid_clearance == 5
max_PV_thickness == 5
\* tile_paramak.py:35
max_tile_thickness ==
    max_tile_major_radius - max_tile_minor_radius - solenoid_clearance
        - max_PV_thickness

Thicknesses == {0, MaxThickness}

\* The "geometry" object of the configuration, after the conversions of
\* capella_paramak_generator.py:63-78.
Geometries ==
    [firstwall_thickness : Thicknesses,
     blanket_outboard_thickness : Thicknesses,
     blanket_inboard_thickness : Thicknesses,
     manifold_thickness : Thicknesses,
     plasma_offset : Thicknesses,
     blanket_structure_thickness : Thicknesses,
     multiplier_thickness : Thicknesses,
     reflector_thickness : Thicknesses,
     minor_radius : Thicknesses,
     major_radius : {SolenoidRadius + 5 * MaxThickness}]

\* capella_paramak_generator.py:84-93: the right-hand side of the check.
RadialSum(g) ==
    g.firstwall_thickness + g.blanket_outboard_thickness
        + g.manifold_thickness + g.plasma_offset + g.minor_radius
        + g.blanket_structure_thickness + g.multiplier_thickness
        + g.reflector_thickness

\* capella_paramak_generator.py:84
RadiusRejected(g) == g.major_radius - SolenoidRadius <= RadialSum(g)

\* capella_paramak_generator.py:100-104
BlanketRejected(g) ==
    g.blanket_outboard_thickness <=
        g.blanket_structure_thickness + g.reflector_thickness
            + g.multiplier_thickness

\* exit() without an argument raises SystemExit(None): status 0.
ExitNoArg == <<0>>
\* sys.exit(1), and sys.exit(<message>), which prints the message and exits
\* with status 1.
ExitFailure == <<1>>

CkFiles == {"dagmc.h5m", "sampleTiles.stl",
            "samplePressureVessel.stl", "vessel.stp"}

CpInit ==
    /\ tool = "capella_paramak_generator"
    /\ pc = "convert"
    /\ argv \in [geometry : Geometries, convertible : BOOLEAN]
    /\ mem = [shapes |-> {}, stdout |-> <<>>, rejected |-> FALSE]

TlInit ==
    /\ tool = "tile_paramak"
    /\ pc = "construct"
    /\ argv \in [tile_thickness :
                    (max_tile_thickness - MaxTileDelta)..
                        (max_tile_thickness + MaxTileDelta),
                 tile_segments : {0, 2}]
    /\ mem = [shapes |-> {}, stdout |-> <<>>, rejected |-> FALSE,
              tile_thickness_is_acceptable |-> FALSE]

UpInit ==
    /\ tool = "upload_file_to_nucleus"
    /\ pc = "start"
    /\ argv \in [copy_ok : BOOLEAN, has_uuid : BOOLEAN, has_ext : BOOLEAN]
    /\ mem = [shapes |-> {}, stdout |-> <<>>, rejected |-> FALSE]

CkInit ==
    /\ CpInit \/ TlInit \/ UpInit
    /\ fs = [p \in CkFiles |-> Absent]
    /\ net = [nucleus |-> {}]
    /\ exit_status = Running

\* capella_paramak_generator.py:62-81.  A value that float() or int()
\* rejects is reported and the function goes on; the first use of the
\* unassigned Major_Radius, at line 84, then raises UnboundLocalError.
CpConvert ==
    /\ tool = "capella_paramak_generator"
    /\ pc = "convert"
    /\ IF argv.convertible
       THEN /\ pc' = "check_radius"
            /\ UNCHANGED <<mem, exit_status>>
       ELSE /\ mem' = [mem EXCEPT !.stdout = Append(mem.stdout,
                          "Error: The input values much match the expected types")]
            /\ pc' = "failed"
            /\ exit_status' = ExitFailure
    /\ UNCHANGED <<tool, argv, fs, net>>

\* capella_paramak_generator.py:84-97
CpCheckRadius ==
    /\ tool = "capella_paramak_generator"
    /\ pc = "check_radius"
    /\ IF RadiusRejected(argv.geometry)
       THEN /\ mem' = [mem EXCEPT
                  !.stdout = Append(mem.stdout,
                      "Error: The Major Radius must be 50cm > all other inputs combined"),
                  !.rejected = TRUE]
            /\ pc' = "exited"
            /\ exit_status' = ExitNoArg
       ELSE /\ pc' = "check_blanket"
            /\ UNCHANGED <<mem, exit_status>>
    /\ UNCHANGED <<tool, argv, fs, net>>

\* capella_paramak_generator.py:100-106
CpCheckBlanket ==
    /\ tool = "capella_paramak_generator"
    /\ pc = "check_blanket"
    /\ IF BlanketRejected(argv.geometry)
       THEN /\ mem' = [mem EXCEPT
                  !.stdout = Append(mem.stdout,
                      "Error: The Blanket unit must be larger than its parts"),
                  !.rejected = TRUE]
            /\ pc' = "exited"
            /\ exit_status' = ExitNoArg
       ELSE /\ pc' = "build"
            /\ UNCHANGED <<mem, exit_status>>
    /\ UNCHANGED <<tool, argv, fs, net>>

\* capella_paramak_generator.py:109-514: the plasma, the cutters and the
\* blanket shapes.
CpBuild ==
    /\ tool = "capella_paramak_generator"
    /\ pc = "build"
    /\ mem' = [mem EXCEPT !.shapes = {"Plasma", "Firstwall", "Blanket",
                                      "Inboard_Structure_Blanket", "Divertor"}]
    /\ pc' = "export"
    /\ UNCHANGED <<tool, argv, fs, net, exit_status>>

\* capella_paramak_generator.py:522-531: the STL files, the h5m file, and
\* "rm *.stl".
CpExport ==
    /\ tool = "capella_paramak_generator"
    /\ pc = "export"
    /\ fs' = [fs EXCEPT !["dagmc.h5m"] = << <<"h5m", mem.shapes>> >>]
    /\ pc' = "done"
    /\ exit_status' = <<0>>
    /\ UNCHANGED <<tool, argv, mem, net>>

\* tile_paramak.py:148-157, 19-38
TlConstruct ==
    /\ tool = "tile_paramak"
    /\ pc = "construct"
    /\ mem' = [mem EXCEPT !.tile_thickness_is_acceptable =
                  (argv.tile_thickness <= max_tile_thickness)]
    /\ pc' = "pressure_vessel"
    /\ UNCHANGED <<tool, argv, fs, net, exit_status>>

\* tile_paramak.py:158, 65-87, 40-49
TlPressureVessel ==
    /\ tool = "tile_paramak"
    /\ pc = "pressure_vessel"
    /\ IF ~mem.tile_thickness_is_acceptable
       THEN /\ mem' = [mem EXCEPT
                  !.stdout = Append(mem.stdout,
                      "[ERROR] Tile thickness must be <= max_tile_thickness"),
                  !.rejected = TRUE]
            /\ pc' = "exited"
            /\ exit_status' = ExitFailure
       ELSE /\ mem' = [mem EXCEPT !.shapes = {"pressure_vessel"}]
            /\ pc' = "tiles"
            /\ UNCHANGED exit_status
    /\ UNCHANGED <<tool, argv, fs, net>>

\* tile_paramak.py:159-164, 89-144
TlTiles ==
    /\ tool = "tile_paramak"
    /\ pc = "tiles"
    /\ mem' = [mem EXCEPT !.shapes = mem.shapes \cup {"tiles"}]
    /\ pc' = "export"
    /\ UNCHANGED <<tool, argv, fs, net, exit_status>>

\* tile_paramak.py:166-177
TlExport ==
    /\ tool = "tile_paramak"
    /\ pc = "export"
    /\ fs' = [p \in DOMAIN fs |->
                 IF p = "sampleTiles.stl" THEN << <<"stl", "tiles">> >>
                 ELSE IF p = "samplePressureVessel.stl"
                 THEN << <<"stl", "pressure_vessel">> >>
                 ELSE IF p = "dagmc.h5m" THEN << <<"h5m", mem.shapes>> >>
                 ELSE IF p = "vessel.stp" THEN << <<"stp", "pressure_vessel">> >>
                 ELSE fs[p]]
    /\ pc' = "done"
    /\ exit_status' = <<0>>
    /\ UNCHANGED <<tool, argv, mem, net>>

\* upload_file_to_nucleus.py:56-65.  --uuid is optional: without it
\* "args.uuid + '.'" raises TypeError.
UpStart ==
    /\ tool = "upload_file_to_nucleus"
    /\ pc = "start"
    /\ IF argv.has_uuid
       THEN /\ pc' = "copy"
            /\ UNCHANGED exit_status
       ELSE /\ pc' = "failed"
            /\ exit_status' = ExitFailure
    /\ UNCHANGED <<tool, argv, mem, fs, net>>

\* upload_file_to_nucleus.py:67-71
UpCopy ==
    /\ tool = "upload_file_to_nucleus"
    /\ pc = "copy"
    /\ IF ~argv.copy_ok
       THEN /\ mem' = [mem EXCEPT
                  !.stdout = Append(mem.stdout, "Error uploading file to nucleus"),
                  !.rejected = TRUE]
            /\ pc' = "exited"
            /\ exit_status' = ExitFailure
            /\ UNCHANGED net
       ELSE /\ mem' = [mem EXCEPT
                  !.stdout = Append(mem.stdout, "File uploaded to nucleus")]
            /\ net' = [net EXCEPT !.nucleus = {<<"uuid", argv.has_ext>>}]
            /\ pc' = "done"
            /\ exit_status' = <<0>>
    /\ UNCHANGED <<tool, argv, fs>>

CkNext ==
    \/ CpConvert
    \/ CpCheckRadius
    \/ CpCheckBlanket
    \/ CpBuild
    \/ CpExport
    \/ TlConstruct
    \/ TlPressureVessel
    \/ TlTiles
    \/ TlExport
    \/ UpStart
    \/ UpCopy

SpecChecks == CkInit /\ [][CkNext]_vars

\* All the radial inputs but the major radius, as the claim lists them.
AllOtherRadialInputs(g) == RadialSum(g) + g.blanket_inboard_thickness

\* C7 (as claimed; refuted because the check of lines 84-93 leaves the
\* inboard blanket thickness out): parametric_blanket creates shapes only
\* when the major radius minus 50 is strictly greater than all the other
\* radial inputs combined, and for every input violating this it prints the
\* error and exits before a shape is created.
C7_GeometryOnlyWhenRadiusFits ==
    (tool = "capella_paramak_generator" /\ argv.convertible) =>
        /\ mem.shapes # {} =>
              argv.geometry.major_radius - SolenoidRadius >
                  AllOtherRadialInputs(argv.geometry)
        /\ (/\ pc \notin {"convert", "check_radius"}
            /\ argv.geometry.major_radius - SolenoidRadius <=
                  AllOtherRadialInputs(argv.geometry)) =>
              /\ mem.stdout # <<>>
              /\ Ended
              /\ mem.shapes = {}

\* C8 (as claimed; refuted by the argument-less exit() of
\* capella_paramak_generator.py:97 and :106): a script that rejects its
\* input or detects a failed operation and exits ends with a non-zero exit
\* status and has written no output geometry file.
C8_RejectionExitsNonZero ==
    (tool \in {"capella_paramak_generator", "tile_paramak",
               "upload_file_to_nucleus"} /\ mem.rejected) =>
        /\ Ended
        /\ exit_status # <<0>>
        /\ \A p \in DOMAIN fs : fs[p] = Absent

(***************************************************************************)
(* json_string_to_file/json_string_to_file.py                              *)
(***************************************************************************)
\* Length bound of the input text, in characters.
MaxJsonLen == 4

\* The characters of the input: the letters of True and true, the two
\* quotes and a digit.
JsChars == {"T", "r", "u", "e", "t", "'", "\"", "1"}

\* str.replace(a, b) for one-character a and b.
ReplaceChar(s, a, b) == [i \in 1..Len(s) |-> IF s[i] = a THEN b ELSE s[i]]

\* s has the characters of w at position i.
HasAt(s, i, w) ==
    /\ i + Len(w) - 1 <= Len(s)
    /\ \A j \in 1..Len(w) : s[i + j - 1] = w[j]

\* str.replace(old, new): the occurrences of old, left to right and not
\* overlapping.
RECURSIVE ReplaceFrom(_, _, _, _)
ReplaceFrom(s, i, old, new) ==
    IF i > Len(s) THEN <<>>
    ELSE IF HasAt(s, i, old)
    THEN new \o ReplaceFrom(s, i + Len(old), old, new)
    ELSE <<s[i]>> \o ReplaceFrom(s, i + 1, old, new)

\* json_string_to_file.py:26-27 (the input alphabet has no "False").
Replaced(json_string) ==
    ReplaceFrom(ReplaceChar(json_string, "'", "\""), 1,
                <<"T", "r", "u", "e">>, <<"t", "r", "u", "e">>)

\* data[1:-1]
StripEnds(s) == IF Len(s) < 2 THEN <<>> ELSE SubSeq(s, 2, Len(s) - 1)

\* A variant of the third attempt that strips the raw text.
Attempt3TextRaw(json_string) == StripEnds(json_string)

\* json_string_to_file.py:32-34
Attempt3Text(json_string) == StripEnds(Replaced(json_string))

\* The JSON values over JsChars: true, an integer of digits 1, a string.
IsJsonTrue(s) == s = <<"t", "r", "u", "e">>
IsJsonNumber(s) == Len(s) >= 1 /\ \A i \in 1..Len(s) : s[i] = "1"
IsJsonString(s) ==
    /\ Len(s) >= 2
    /\ s[1] = "\""
    /\ s[Len(s)] = "\""
    /\ \A i \in 2..(Len(s) - 1) : s[i] # "\""

\* json.loads(s) returns a value (it raises otherwise).
JsonValid(s) == IsJsonTrue(s) \/ IsJsonNumber(s) \/ IsJsonString(s)

RECURSIVE DecimalValue(_)
DecimalValue(s) ==
    IF s = <<>> THEN 0 ELSE 10 * DecimalValue(SubSeq(s, 1, Len(s) - 1)) + 1

\* json.loads(s) for a valid s.
JsonLoads(s) ==
    IF IsJsonTrue(s) THEN [type |-> "bool", v |-> <<TRUE>>]
    ELSE IF IsJsonNumber(s) THEN [type |-> "int", v |-> <<DecimalValue(s)>>]
    ELSE [type |-> "str", v |-> StripEnds(s)]

RECURSIVE Digits(_)
Digits(n) == IF n < 10 THEN <<"1">> ELSE Append(Digits(n \div 10), "1")

\* json.dump(data, f): the text written.
JsonDump(data) ==
    IF data.type = "bool" THEN <<"t", "r", "u", "e">>
    ELSE IF data.type = "int" THEN Digits(data.v[1])
    ELSE <<"\"">> \o data.v \o <<"\"">>

JsOld == {Absent, << <<"old">> >>}

JsInit ==
    /\ tool = "json_string_to_file"
    /\ pc = "read"
    /\ argv \in [text : SeqsUpTo(JsChars, MaxJsonLen), old : JsOld]
    /\ mem = [json_string |-> <<>>, attempts |-> <<>>, data |-> <<>>,
              error |-> ""]
    /\ fs = [p \in {"file"} |-> argv.old]
    /\ net = NoNet
    /\ exit_status = Running

\* json_string_to_file.py:12-18: the lines of the input, joined (the input
\* is one line without a line end).
JsRead ==
    /\ tool = "json_string_to_file"
    /\ pc = "read"
    /\ mem' = [mem EXCEPT !.json_string = argv.text]
    /\ pc' = "try1"
    /\ UNCHANGED <<tool, argv, fs, net, exit_status>>

\* json_string_to_file.py:21-24
JsAttempt1 ==
    /\ tool = "json_string_to_file"
    /\ pc = "try1"
    /\ LET text == mem.json_string
       IN  IF JsonValid(text)
           THEN /\ mem' = [mem EXCEPT !.attempts = Append(mem.attempts, text),
                                      !.data = JsonLoads(text)]
                /\ pc' = "write"
           ELSE /\ mem' = [mem EXCEPT !.attempts = Append(mem.attempts, text)]
                /\ pc' = "try2"
    /\ UNCHANGED <<tool, argv, fs, net, exit_status>>

\* json_string_to_file.py:25-30
JsAttempt2 ==
    /\ tool = "json_string_to_file"
    /\ pc = "try2"
    /\ LET text == Replaced(mem.json_string)
       IN  IF JsonValid(text)
           THEN /\ mem' = [mem EXCEPT !.attempts = Append(mem.attempts, text),
                                      !.data = JsonLoads(text)]
                /\ pc' = "write"
           ELSE /\ mem' = [mem EXCEPT !.attempts = Append(mem.attempts, text)]
                /\ pc' = "try3"
    /\ UNCHANGED <<tool, argv, fs, net, exit_status>>

\* json_string_to_file.py:31-38
JsAttempt3 ==
    /\ tool = "json_string_to_file"
    /\ pc = "try3"
    /\ LET text == Attempt3Text(mem.json_string)
       IN  IF JsonValid(text)
           THEN /\ mem' = [mem EXCEPT !.attempts = Append(mem.attempts, text),
                                      !.data = JsonLoads(text)]
                /\ pc' = "write"
                /\ UNCHANGED exit_status
           ELSE /\ mem' = [mem EXCEPT
                      !.attempts = Append(mem.attempts, text),
                      !.error = "ValueError: The json string is not valid"]
                /\ pc' = "failed"
                /\ exit_status' = <<1>>
    /\ UNCHANGED <<tool, argv, fs, net>>

\* json_string_to_file.py:41-42
JsWrite ==
    /\ tool = "json_string_to_file"
    /\ pc = "write"
    /\ fs' = [fs EXCEPT !["file"] = OpenWrite(fs["file"], <<JsonDump(mem.data)>>)]
    /\ pc' = "done"
    /\ exit_status' = <<0>>
    /\ UNCHANGED <<tool, argv, mem, net>>

JsNext ==
    \/ JsRead
    \/ JsAttempt1
    \/ JsAttempt2
    \/ JsAttempt3
    \/ JsWrite

SpecJsonString == JsInit /\ [][JsNext]_vars

\* The three texts of the claim, in order: the raw text; the text with '
\* replaced by " and True by true; that text without its first and last
\* character.
C9_Texts ==
    LET second == ReplaceFrom(ReplaceChar(argv.text, "'", "\""), 1,
                              <<"T", "r", "u", "e">>, <<"t", "r", "u", "e">>)
    IN  <<argv.text, second, StripEnds(second)>>

\* The first of the three texts that is valid JSON, 0 when none is.
C9_FirstValid ==
    IF \E k \in 1..3 : JsonValid(C9_Texts[k])
    THEN CHOOSE k \in 1..3 :
             /\ JsonValid(C9_Texts[k])
             /\ \A j \in 1..(k - 1) : ~JsonValid(C9_Texts[j])
    ELSE 0

\* C9: the script parses the three texts in order, writes the result of the
\* first that parses and makes no later attempt; when none parses it raises
\* ValueError('The json string is not valid') and the output file is
\* neither created nor modified.
C9_FirstSuccessfulAttemptWins ==
    (tool = "json_string_to_file" /\ Ended) =>
        IF C9_FirstValid # 0
        THEN /\ pc = "done"
             /\ mem.attempts = SubSeq(C9_Texts, 1, C9_FirstValid)
             /\ fs["file"] = <<JsonDump(JsonLoads(C9_Texts[C9_FirstValid]))>>
        ELSE /\ pc = "failed"
             /\ mem.attempts = C9_Texts
             /\ mem.error = "ValueError: The json string is not valid"
             /\ fs["file"] = argv.old

\* A run that succeeded at the third attempt only and replaced an existing
\* output file.
C9_Witness ==
    /\ tool = "json_string_to_file"
    /\ pc = "done"
    /\ Len(mem.attempts) = 3
    /\ argv.old # Absent
    /\ fs["file"] # argv.old

(***************************************************************************)
(* json_append/json_append.py                                              *)
(***************************************************************************)
\* Bound on the distinct keys of the two input objects.
MaxKeys == 2

\* The keys, "k1", "k2", ..., by their number.
JaKeys == 1..MaxKeys

\* The values: a number and two nested objects with different key sets.
JaValues == {[type |-> "num", keys |-> {}],
             [type |-> "obj", keys |-> {"x"}],
             [type |-> "obj", keys |-> {"y"}]}

\* A Python dict: the items in insertion order, no key twice.
JaDicts == {d \in SeqsUpTo(JaKeys \X JaValues, MaxKeys) :
               \A i, j \in 1..Len(d) : d[i][1] = d[j][1] => i = j}

DictKeys(d) == {d[i][1] : i \in 1..Len(d)}

\* d[k], for a key of d.
DictValue(d, k) == d[CHOOSE i \in 1..Len(d) : d[i][1] = k][2]

\* A variant that keeps the value a key already has.
DictSetDefault(d, k, v) ==
    IF k \in DictKeys(d) THEN d ELSE Append(d, <<k, v>>)

\* d[k] = v: a key of d keeps its place and takes the new value, a new key
\* goes last.
DictSet(d, k, v) ==
    IF k \in DictKeys(d)
    THEN [i \in 1..Len(d) |-> IF d[i][1] = k THEN <<k, v>> ELSE d[i]]
    ELSE Append(d, <<k, v>>)

\* The items of src stored into d, in the order of src.
RECURSIVE DictUpdate(_, _, _)
DictUpdate(d, src, i) ==
    IF i > Len(src) THEN d
    ELSE DictUpdate(DictSet(d, src[i][1], src[i][2]), src, i + 1)

\* json_append.py:21: {**json_1, **json_2}
Combine(json_1, json_2) == DictUpdate(DictUpdate(<<>>, json_1, 1), json_2, 1)

JaInit ==
    /\ tool = "json_append"
    /\ pc = "load_1"
    /\ argv \in [json_file_1 : JaDicts, json_file_2 : JaDicts]
    /\ mem = [json_1 |-> <<>>, json_2 |-> <<>>, data |-> <<>>]
    /\ fs = [p \in {"json_output"} |-> Absent]
    /\ net = NoNet
    /\ exit_status = Running

\* json_append.py:14-15
JaLoad1 ==
    /\ tool = "json_append"
    /\ pc = "load_1"
    /\ mem' = [mem EXCEPT !.json_1 = argv.json_file_1]
    /\ pc' = "load_2"
    /\ UNCHANGED <<tool, argv, fs, net, exit_status>>

\* json_append.py:17-18
JaLoad2 ==
    /\ tool = "json_append"
    /\ pc = "load_2"
    /\ mem' = [mem EXCEPT !.json_2 = argv.json_file_2]
    /\ pc' = "combine"
    /\ UNCHANGED <<tool, argv, fs, net, exit_status>>

\* json_append.py:21
JaCombine ==
    /\ tool = "json_append"
    /\ pc = "combine"
    /\ mem' = [mem EXCEPT !.data = Combine(mem.json_1, mem.json_2)]
    /\ pc' = "write"
    /\ UNCHANGED <<tool, argv, fs, net, exit_status>>

\* json_append.py:24-25
JaWrite ==
    /\ tool = "json_append"
    /\ pc = "write"
    /\ fs' = [fs EXCEPT !["json_output"] =
                 OpenWrite(fs["json_output"], << <<"object", mem.data>> >>)]
    /\ pc' = "done"
    /\ exit_status' = <<0>>
    /\ UNCHANGED <<tool, argv, mem, net>>

JaNext ==
    \/ JaLoad1
    \/ JaLoad2
    \/ JaCombine
    \/ JaWrite

SpecJsonAppend == JaInit /\ [][JaNext]_vars

\* The object in the output file.
JaOutput == fs["json_output"][1][2]

\* C10: the output's key set is the union of the inputs' key sets; a key of
\* both takes the value of json_file_2 (a nested object replaced whole); a
\* key of one takes that input's value; an object combined with itself
\* gives that object.
C10_TopLevelUnionSecondWins ==
    (tool = "json_append" /\ pc = "done") =>
        LET j1 == argv.json_file_1
            j2 == argv.json_file_2
            out == JaOutput
        IN  /\ DictKeys(out) = DictKeys(j1) \cup DictKeys(j2)
            /\ Len(out) = Cardinality(DictKeys(out))
            /\ \A k \in DictKeys(j2) : DictValue(out, k) = DictValue(j2, k)
            /\ \A k \in DictKeys(j1) \ DictKeys(j2) :
                   DictValue(out, k) = DictValue(j1, k)
            /\ j1 = j2 => out = j1

\* A finished run where one key is in both inputs with different nested
\* objects and another key is in the first input only.
C10_Witness ==
    /\ tool = "json_append"
    /\ pc = "done"
    /\ \E k \in DictKeys(argv.json_file_1) \cap DictKeys(argv.json_file_2) :
          /\ DictValue(argv.json_file_1, k).type = "obj"
          /\ DictValue(argv.json_file_2, k).type = "obj"
          /\ DictValue(argv.json_file_1, k) # DictValue(argv.json_file_2, k)
          /\ DictValue(JaOutput, k) = DictValue(argv.json_file_2, k)
    /\ DictKeys(argv.json_file_1) \ DictKeys(argv.json_file_2) # {}

(***************************************************************************)
(* tokamak_gen/tokamakgen.py: generate_solenoid                            *)
(***************************************************************************)

MaxTurns == 4
MaxSolenoidLength == 3
MaxSolenoidThickness == 2

\* tokamakgen.py:388-395: height = -solenoid_length / 2 + i * dz with
\* dz = solenoid_length / number_of_turns, kept exact by scaling with
\* 2 * number_of_turns.
SolHeight(solenoid_length, turns, i) ==
    (0 - solenoid_length * turns) + 2 * i * solenoid_length

\* tokamakgen.py:408: f"solenoid_coil_{height}.step"
SolStepFilename(solenoid_length, turns, i) ==
    <<"solenoid_coil", SolHeight(solenoid_length, turns, i), ".step">>

\* The names the loop of tokamakgen.py:393-410 can give to its files.
SolFilenames(solenoid_length, turns) ==
    {SolStepFilename(solenoid_length, turns, i) : i \in 0..(turns - 1)}

\* tokamakgen.py:398-405: the coil of turn i.
SolCoil(i, thickness) == <<"solenoid_coil", i, thickness>>

SolInit ==
    /\ tool = "generate_solenoid"
    /\ pc = "export"
    /\ argv \in [number_of_turns : 1..MaxTurns,
                 solenoid_length : 0..MaxSolenoidLength,
                 solenoid_thickness : 1..MaxSolenoidThickness]
    /\ mem = [i |-> 0, stp_files |-> <<>>, j |-> 1, cad_coils |-> <<>>]
    /\ fs = [f \in SolFilenames(argv.solenoid_length, argv.number_of_turns)
                |-> Absent]
    /\ net = NoNet
    /\ exit_status = Running

\* tokamakgen.py:393-410: one turn of the loop that builds a coil and
\* exports it to its STEP file.
SolExport ==
    /\ tool = "generate_solenoid"
    /\ pc = "export"
    /\ mem.i < argv.number_of_turns
    /\ LET step_filename == SolStepFilename(argv.solenoid_length,
                                            argv.number_of_turns, mem.i)
       IN /\ fs' = [fs EXCEPT ![step_filename] =
                       OpenWrite(@, <<SolCoil(mem.i, argv.solenoid_thickness)>>)]
          /\ mem' = [mem EXCEPT !.i = mem.i + 1,
                                !.stp_files = Append(mem.stp_files, step_filename)]
    /\ UNCHANGED <<tool, pc, argv, net, exit_status>>

\* tokamakgen.py:393,413: the export loop is over.
SolExportDone ==
    /\ tool = "generate_solenoid"
    /\ pc = "export"
    /\ mem.i >= argv.number_of_turns
    /\ pc' = "import"
    /\ UNCHANGED <<tool, argv, mem, fs, net, exit_status>>

\* tokamakgen.py:413-417: one file is imported and removed.
SolImport ==
    /\ tool = "generate_solenoid"
    /\ pc = "import"
    /\ mem.j <= Len(mem.stp_files)
    /\ fs[mem.stp_files[mem.j]] # Absent
    /\ mem' = [mem EXCEPT !.j = mem.j + 1,
                          !.cad_coils = mem.cad_coils \o fs[mem.stp_files[mem.j]]]
    /\ fs' = [fs EXCEPT ![mem.stp_files[mem.j]] = Absent]
    /\ UNCHANGED <<tool, pc, argv, net, exit_status>>

\* tokamakgen.py:415: importStep raises on a file that does not exist.
SolImportFails ==
    /\ tool = "generate_solenoid"
    /\ pc = "import"
    /\ mem.j <= Len(mem.stp_files)
    /\ fs[mem.stp_files[mem.j]] = Absent
    /\ pc' = "raised"
    /\ exit_status' = ExitFailure
    /\ UNCHANGED <<tool, argv, mem, fs, net>>

\* tokamakgen.py:420: return cad_coils
SolReturn ==
    /\ tool = "generate_solenoid"
    /\ pc = "import"
    /\ mem.j > Len(mem.stp_files)
    /\ pc' = "returned"
    /\ exit_status' = <<0>>
    /\ UNCHANGED <<tool, argv, mem, fs, net>>

SolNext ==
    \/ SolExport
    \/ SolExportDone
    \/ SolImport
    \/ SolImportFails
    \/ SolReturn

SpecSolenoid == SolInit /\ [][SolNext]_vars

\* C12 (as claimed; refuted for solenoid_length = 0 and two or more turns,
\* where every turn has the same height and so the same file name): the
\* call ends by returning exactly number_of_turns coils, each file having
\* been imported once, and none of its STEP files remains.
C12_ReturnsOneCoilPerTurn ==
    (tool = "generate_solenoid" /\ Ended) =>
        /\ pc = "returned"
        /\ Len(mem.cad_coils) = argv.number_of_turns
        /\ \A f \in DOMAIN fs : fs[f] = Absent

(***************************************************************************)
(* capella_openmc/capella_openmc.py: openmc_model                          *)
(***************************************************************************)

MaxMaterials == 3

\* The keys a config's "materials" dictionary is drawn from.
MaterialKeys == {"Firstwall", "Blanket_inboard", "Blanket_outboard"}

\* The values settings['blanket_type'] is drawn from; "hcpb" stands for
\* every value that is neither a preset nor 'User'.
BlanketTypes == {"HCPB", "HCLL", "WCLL", "DCLL", "User", "hcpb"}

\* The values source['type'] is drawn from.
SourceTypes == {"tokamak source", "point source"}

\* capella_openmc.py:308-313
blanket_type_dict == {"HCPB", "HCLL", "WCLL", "DCLL"}

\* capella_openmc.py:12-148: the pair of mixtures a preset returns, named
\* Blanket_inboard and Blanket_outboard.
PresetBlanket(blanket_type) ==
    << [name |-> "Blanket_inboard", origin |-> blanket_type],
       [name |-> "Blanket_outboard", origin |-> blanket_type] >>

\* A dictionary's keys in insertion order: no key twice.
OmKeyLists ==
    {ks \in SeqsUpTo(MaterialKeys, MaxMaterials) :
        \A a, b \in 1..Len(ks) : a # b => ks[a] # ks[b]}

OmInit ==
    /\ tool = "capella_openmc"
    /\ pc = "materials"
    /\ argv \in [blanket_type : BlanketTypes,
                 materials : OmKeyLists,
                 source_type : SourceTypes]
    /\ mem = [k |-> 1, Collect_Materials |-> <<>>, material_lookup |-> <<>>,
              model_materials |-> <<>>, model_tallies |-> <<>>]
    /\ fs = [f \in {"statepoint"} |-> Absent]
    /\ net = NoNet
    /\ exit_status = Running

\* capella_openmc.py:256-261: a config entry of a blanket name is passed
\* over unless the blanket type is 'User'.
OmMaterialSkip ==
    /\ tool = "capella_openmc"
    /\ pc = "materials"
    /\ mem.k <= Len(argv.materials)
    /\ argv.blanket_type # "User"
    /\ argv.materials[mem.k] \in {"Blanket_inboard", "Blanket_outboard"}
    /\ mem' = [mem EXCEPT !.k = mem.k + 1]
    /\ UNCHANGED <<tool, pc, argv, fs, net, exit_status>>

\* capella_openmc.py:256-305: the mixture of a config entry is built, named
\* by its key and collected.
OmMaterial ==
    /\ tool = "capella_openmc"
    /\ pc = "materials"
    /\ mem.k <= Len(argv.materials)
    /\ ~(/\ argv.blanket_type # "User"
         /\ argv.materials[mem.k] \in {"Blanket_inboard", "Blanket_outboard"})
    /\ LET key == argv.materials[mem.k]
           temp_material == [name |-> key, origin |-> "config"]
       IN mem' = [mem EXCEPT
              !.k = mem.k + 1,
              !.Collect_Materials = Append(mem.Collect_Materials, temp_material),
              !.material_lookup = Append(mem.material_lookup, temp_material)]
    /\ UNCHANGED <<tool, pc, argv, fs, net, exit_status>>

\* capella_openmc.py:308-323: a preset blanket type adds its pair.
OmPresetBlanket ==
    /\ tool = "capella_openmc"
    /\ pc = "materials"
    /\ mem.k > Len(argv.materials)
    /\ argv.blanket_type \in blanket_type_dict
    /\ mem' = [mem EXCEPT
           !.Collect_Materials =
               mem.Collect_Materials \o PresetBlanket(argv.blanket_type),
           !.material_lookup =
               mem.material_lookup \o PresetBlanket(argv.blanket_type)]
    /\ pc' = "combine"
    /\ UNCHANGED <<tool, argv, fs, net, exit_status>>

\* capella_openmc.py:316,324-329: any other blanket type only prints.
OmNoPresetBlanket ==
    /\ tool = "capella_openmc"
    /\ pc = "materials"
    /\ mem.k > Len(argv.materials)
    /\ argv.blanket_type \notin blanket_type_dict
    /\ pc' = "combine"
    /\ UNCHANGED <<tool, argv, mem, fs, net, exit_status>>

\* capella_openmc.py:332-374: the materials are given to the model and the
\* geometry is built.
OmCombine ==
    /\ tool = "capella_openmc"
    /\ pc = "combine"
    /\ mem' = [mem EXCEPT !.model_materials = mem.Collect_Materials]
    /\ pc' = "source"
    /\ UNCHANGED <<tool, argv, fs, net, exit_status>>

\* capella_openmc.py:381-409
OmSource ==
    /\ tool = "capella_openmc"
    /\ pc = "source"
    /\ argv.source_type = "tokamak source"
    /\ pc' = "tallies"
    /\ UNCHANGED <<tool, argv, mem, fs, net, exit_status>>

\* capella_openmc.py:405-409: with another source type, source stays the
\* config's dictionary and source.sources raises.
OmSourceFails ==
    /\ tool = "capella_openmc"
    /\ pc = "source"
    /\ argv.source_type # "tokamak source"
    /\ pc' = "raised"
    /\ exit_status' = ExitFailure
    /\ UNCHANGED <<tool, argv, mem, fs, net>>

\* capella_openmc.py:414-453: the tallies are built over material_lookup.
OmTallies ==
    /\ tool = "capella_openmc"
    /\ pc = "tallies"
    /\ mem' = [mem EXCEPT !.model_tallies =
                  [i \in 1..Len(mem.material_lookup) |-> mem.material_lookup[i].name]]
    /\ pc' = "run"
    /\ UNCHANGED <<tool, argv, fs, net, exit_status>>

\* capella_openmc.py:458-467: the simulation runs and its statepoint is
\* moved to statepoint_path.
OmRun ==
    /\ tool = "capella_openmc"
    /\ pc = "run"
    /\ fs' = [fs EXCEPT !["statepoint"] = OpenWrite(@, <<<<"statepoint">>>>)]
    /\ pc' = "done"
    /\ exit_status' = <<0>>
    /\ UNCHANGED <<tool, argv, mem, net>>

OmNext ==
    \/ OmMaterialSkip
    \/ OmMaterial
    \/ OmPresetBlanket
    \/ OmNoPresetBlanket
    \/ OmCombine
    \/ OmSource
    \/ OmSourceFails
    \/ OmTallies
    \/ OmRun

SpecOpenmc == OmInit /\ [][OmNext]_vars

\* The materials of the model that bear the name.
MaterialsNamed(name) ==
    {i \in 1..Len(mem.model_materials) : mem.model_materials[i].name = name}

\* C14 (as claimed; refuted for 'User' with a config that lacks a blanket
\* entry): once the model has its materials, a preset type gives exactly
\* one material of each blanket name, taken from the preset; 'User' gives
\* exactly one of each, taken from the config; any other type gives none of
\* either name, and the run then ends with the simulation when the source
\* type is the tokamak source.
C14_BlanketSourceByTypeAlone ==
    (tool = "capella_openmc" /\ pc \in {"source", "tallies", "run", "done", "raised"}) =>
        \A name \in {"Blanket_inboard", "Blanket_outboard"} :
            /\ argv.blanket_type \in blanket_type_dict =>
                   /\ Cardinality(MaterialsNamed(name)) = 1
                   /\ \A i \in MaterialsNamed(name) :
                          mem.model_materials[i].origin = argv.blanket_type
            /\ argv.blanket_type = "User" =>
                   /\ Cardinality(MaterialsNamed(name)) = 1
                   /\ \A i \in MaterialsNamed(name) :
                          mem.model_materials[i].origin = "config"
            /\ argv.blanket_type \notin (blanket_type_dict \cup {"User"}) =>
                   /\ MaterialsNamed(name) = {}
                   /\ (Ended /\ argv.source_type = "tokamak source") => pc = "done"

(***************************************************************************)
(* openmc/general_CAD.py: the settings loop                                *)
(***************************************************************************)

MaxSettingLines == 3

\* The keys whose value goes through int(), general_CAD.py:236-243.
IntKeys == {"batches", "particles", "num_tracks"}

\* The tokens a value is drawn from, as sequences of characters; a word
\* that int() rejects is kept as one item.
ValueTokens == {<<"1", "2">>, <<"x">>}

\* The lines of the SETTINGS section after line.split(),
\* general_CAD.py:82-86: an empty line, a key alone, a key with a value,
\* a key with two values, a key that is not known ("seed"), and the two
\* run modes.
SettingLines ==
    {<<>>, <<"batches">>, <<"seed">>}
    \cup {<<k, v>> : k \in IntKeys \cup {"seed"}, v \in ValueTokens}
    \cup {<<"batches", v, <<"5">>>> : v \in ValueTokens}
    \cup {<<"run_mode", <<"eigenvalue">>>>,
          <<"run_mode", <<"fixed">>, <<"source">>>>}

DecimalDigits == {"0", "1", "2", "3", "4", "5", "6", "7", "8", "9"}

DigitValue(c) ==
    CASE c = "0" -> 0 [] c = "1" -> 1 [] c = "2" -> 2 [] c = "3" -> 3
      [] c = "4" -> 4 [] c = "5" -> 5 [] c = "6" -> 6 [] c = "7" -> 7
      [] c = "8" -> 8 [] c = "9" -> 9

RECURSIVE DecValue(_)
DecValue(tok) ==
    IF tok = <<>> THEN 0
    ELSE 10 * DecValue(SubSeq(tok, 1, Len(tok) - 1)) + DigitValue(Last(tok))

\* A variant of int() that reads every character that is no digit as
\* nothing instead of raising.
PyIntLenient(tok) ==
    <<DecValue(SelectSeq(tok, LAMBDA c : c \in DecimalDigits))>>

\* int() of a token: <<n>>, or <<>> when it raises ValueError.
PyInt(tok) ==
    IF tok = <<>> \/ \E i \in 1..Len(tok) : tok[i] \notin DecimalDigits
    THEN <<>>
    ELSE <<DecValue(tok)>>

\* " ".join(tokens), general_CAD.py:241
RECURSIVE PyJoin(_)
PyJoin(tokens) ==
    IF tokens = <<>> THEN <<>>
    ELSE IF Len(tokens) = 1 THEN tokens[1]
    ELSE tokens[1] \o <<" ">> \o PyJoin(Tail(tokens))

\* general_CAD.py:161: openmc.Settings()
DefaultSettings ==
    [batches |-> <<>>, particles |-> <<>>,
     run_mode |-> <<"eigenvalue">>, max_tracks |-> <<>>]

\* general_CAD.py:235-247: what one pass of the loop body does with a
\* line: the settings after it and what it prints.
ApplySetting(settings, setting) ==
    IF Len(setting) = 0
    THEN [settings |-> settings, printed |-> "error"]
    ELSE IF setting[1] \in IntKeys
    THEN IF Len(setting) < 2 \/ PyInt(setting[2]) = <<>>
         THEN [settings |-> settings, printed |-> "error"]
         ELSE [settings |->
                   IF setting[1] = "batches"
                   THEN [settings EXCEPT !.batches = PyInt(setting[2])]
                   ELSE IF setting[1] = "particles"
                   THEN [settings EXCEPT !.particles = PyInt(setting[2])]
                   ELSE [settings EXCEPT !.max_tracks = PyInt(setting[2])],
               printed |-> "none"]
    ELSE IF setting[1] = "run_mode"
    THEN [settings |-> [settings EXCEPT
                           !.run_mode = PyJoin(SubSeq(setting, 2, Len(setting)))],
          printed |-> "none"]
    ELSE [settings |-> settings, printed |-> "no match"]

GcInit ==
    /\ tool = "general_CAD"
    /\ pc = "settings"
    /\ argv \in [settings_input : SeqsUpTo(SettingLines, MaxSettingLines),
                 tallies_lines_ok : BOOLEAN]
    /\ mem = [s |-> 1, settings |-> DefaultSettings, printed |-> <<>>]
    /\ fs = [f \in {"settings.xml", "tallies.xml", "statepoint"} |-> Absent]
    /\ net = NoNet
    /\ exit_status = Running

\* general_CAD.py:234-247: one pass of the loop over settings_input.
GcSetting ==
    /\ tool = "general_CAD"
    /\ pc = "settings"
    /\ mem.s <= Len(argv.settings_input)
    /\ LET out == ApplySetting(mem.settings, argv.settings_input[mem.s])
       IN mem' = [s |-> mem.s + 1,
                  settings |-> out.settings,
                  printed |-> Append(mem.printed, out.printed)]
    /\ UNCHANGED <<tool, pc, argv, fs, net, exit_status>>

\* general_CAD.py:249: settings.export_to_xml()
GcExport ==
    /\ tool = "general_CAD"
    /\ pc = "settings"
    /\ mem.s > Len(argv.settings_input)
    /\ fs' = [fs EXCEPT !["settings.xml"] =
                 OpenWrite(@, <<<<"settings", mem.settings>>>>)]
    /\ pc' = "tallies"
    /\ UNCHANGED <<tool, argv, mem, net, exit_status>>

\* general_CAD.py:256-274: the mesh tally is built from the three lines of
\* the TALLIES section and exported.
GcTallies ==
    /\ tool = "general_CAD"
    /\ pc = "tallies"
    /\ argv.tallies_lines_ok
    /\ fs' = [fs EXCEPT !["tallies.xml"] = OpenWrite(@, <<<<"heating_on_mesh">>>>)]
    /\ pc' = "run"
    /\ UNCHANGED <<tool, argv, mem, net, exit_status>>

\* general_CAD.py:256-263: a TALLIES section that lacks a line or a number
\* raises.
GcTalliesFails ==
    /\ tool = "general_CAD"
    /\ pc = "tallies"
    /\ ~argv.tallies_lines_ok
    /\ pc' = "raised"
    /\ exit_status' = ExitFailure
    /\ UNCHANGED <<tool, argv, mem, fs, net>>

\* general_CAD.py:281: openmc.run(...)
GcRun ==
    /\ tool = "general_CAD"
    /\ pc = "run"
    /\ fs' = [fs EXCEPT !["statepoint"] = OpenWrite(@, <<<<"statepoint">>>>)]
    /\ pc' = "done"
    /\ exit_status' = <<0>>
    /\ UNCHANGED <<tool, argv, mem, net>>

GcNext ==
    \/ GcSetting
    \/ GcExport
    \/ GcTallies
    \/ GcTalliesFails
    \/ GcRun

SpecGeneralCad == GcInit /\ [][GcNext]_vars

\* The lines the claim speaks of: an empty line, a key that is none of the
\* four, or a value that is no integer text where one is converted.
BadLine(setting) ==
    \/ Len(setting) = 0
    \/ /\ Len(setting) > 0
       /\ setting[1] \notin IntKeys \cup {"run_mode"}
    \/ /\ Len(setting) > 0
       /\ setting[1] \in IntKeys
       /\ \/ Len(setting) < 2
          \/ /\ Len(setting) >= 2
             /\ \/ setting[2] = <<>>
                \/ \E c \in 1..Len(setting[2]) : setting[2][c] \notin DecimalDigits

\* The last of the first n lines that has the key and is no bad line, or 0.
LastGoodLine(key, n) ==
    LET good == {i \in 1..n :
                    /\ ~BadLine(argv.settings_input[i])
                    /\ argv.settings_input[i][1] = key}
    IN IF good = {} THEN 0 ELSE CHOOSE i \in good : \A j \in good : j <= i

\* The value the first n lines leave in a setting that takes an integer.
ExpectedInt(key, n) ==
    IF LastGoodLine(key, n) = 0 THEN <<>>
    ELSE <<DecValue(argv.settings_input[LastGoodLine(key, n)][2])>>

\* The run mode the first n lines leave.
ExpectedRunMode(n) ==
    IF LastGoodLine("run_mode", n) = 0 THEN DefaultSettings.run_mode
    ELSE LET setting == argv.settings_input[LastGoodLine("run_mode", n)]
         IN IF Len(setting) = 2 THEN setting[2]
            ELSE setting[2] \o <<" ">> \o setting[3]

\* C15: a SETTINGS line with an unknown key, with a value that cannot be
\* converted, or that is empty is reported and changes no setting; every
\* other line is applied, in file order; after the loop the settings are
\* exported and, the TALLIES section being well formed, the simulation is
\* run.
C15_BadSettingLinesSkipped ==
    (tool = "general_CAD") =>
        LET n == mem.s - 1
        IN /\ Len(mem.printed) = n
           /\ \A i \in 1..n :
                  (mem.printed[i] # "none") <=> BadLine(argv.settings_input[i])
           /\ mem.settings.batches = ExpectedInt("batches", n)
           /\ mem.settings.particles = ExpectedInt("particles", n)
           /\ mem.settings.max_tracks = ExpectedInt("num_tracks", n)
           /\ mem.settings.run_mode = ExpectedRunMode(n)
           /\ pc \in {"tallies", "run", "done", "raised"} =>
                  /\ n = Len(argv.settings_input)
                  /\ fs["settings.xml"] = <<<<"settings", mem.settings>>>>
           /\ (Ended /\ argv.tallies_lines_ok) =>
                  /\ pc = "done"
                  /\ fs["statepoint"] # Absent

\* A finished run of three lines: one applied, one whose value does not
\* convert, and one applied to the same key after it.
C15_Witness ==
    /\ tool = "general_CAD"
    /\ pc = "done"
    /\ Len(argv.settings_input) = MaxSettingLines
    /\ ~BadLine(argv.settings_input[1])
    /\ argv.settings_input[1][1] = "batches"
    /\ \E i \in 2..(MaxSettingLines - 1) :
           argv.settings_input[i] = <<"batches", <<"x">>>>
    /\ argv.settings_input[MaxSettingLines] = <<"batches", <<"1", "2">>, <<"5">>>>
    /\ mem.settings.batches = <<12>>
    /\ fs["statepoint"] # Absent

====
